---- MODULE Spec2Model ----
(***************************************************************************)
(* A model of the RenderTest::RenderingTester wrapper of glview-kit        *)
(* (src/src/RenderingTester.cpp) around the closed infogl.dll library:      *)
(* the configuration serializer (BuildXMLConfiguration and its helpers),    *)
(* the library binding (Impl::LoadDLL, Initialize), the result translation  *)
(* (RunSingleTest) and the sequential batch runner (RunMultipleTests).      *)
(*                                                                          *)
(* std::string is modelled by TLA+ strings (sequences of characters);       *)
(* enum class values by their integer ordinals, as static_cast<int> sees    *)
(* them; the external library and the operating system by nondeterministic  *)
(* choices made at each call.                                               *)
(***************************************************************************)
EXTENDS Integers, Sequences, FiniteSets, TLC

VARIABLES
    m_dllPath,                \* RenderingTester::m_dllPath
    m_resourcePath,           \* RenderingTester::m_resourcePath
    m_initialized,            \* RenderingTester::m_initialized
    m_lastError,              \* RenderingTester::m_lastError
    m_pImpl,                  \* RenderingTester::Impl: hLibrary and the three entry points
    WGLDIAG_OPTIONS_FS_EX,    \* the build's value of the macro of that name
    displayModes,             \* what EnumDisplaySettings enumerates (operating system)
    pc,                       \* position of the caller inside RunMultipleTests
    configs,                  \* RunMultipleTests: its argument
    progressCallback,         \* RunMultipleTests: whether a callback was supplied
    i,                        \* RunMultipleTests: the loop index
    result,                   \* RunMultipleTests: the loop's local TestResult
    results,                  \* RunMultipleTests: the vector being built
    calls,                    \* history: the external calls of the operation in progress
    ser,                      \* history: the last two serializations, oldest first
    ret,                      \* history: the last operation that returned, and its value
    xin,                      \* serializer specification: the TestConfig drawn
    xout,                     \* serializer specification: its serialization, "" before
    libraryLoads,             \* history: LoadLibraryA calls that returned a handle
    libraryFrees,             \* history: FreeLibrary calls
    lpc,                      \* oevTest.cpp: position of the program
    gdm_n,                    \* oevTest.cpp: GetDisplayMode's n
    infogl,                   \* oevTest.cpp: the infogl.dll of the machine it runs on
    wadAccepted,              \* history: an oevInitWad call of the tester returned >= 0
    initFailed                \* history: an initialization attempt of the tester failed

testerVars == <<m_dllPath, m_resourcePath, m_initialized, m_lastError, m_pImpl>>
batchVars == <<pc, configs, progressCallback, i, result, results>>
xmlVars == <<xin, xout>>
libVars == <<libraryLoads, libraryFrees>>
legacyVars == <<lpc, gdm_n, infogl>>
attemptVars == <<wadAccepted, initFailed>>
vars == <<testerVars, WGLDIAG_OPTIONS_FS_EX, displayModes, batchVars, calls, ser, ret, xmlVars,
          libVars, legacyVars, attemptVars>>

----------------------------------------------------------------------------
(* enum class RendererType, SceneType, FramebufferFormat, FramebufferType  *)

GDI == 0
OpenGL_2_0 == 1
OpenGL_3_0 == 2
OpenGL_3_1 == 3
OpenGL_3_2 == 4
OpenGL_3_3 == 5
OpenGL_4_0 == 6
OpenGL_4_1 == 7
OpenGL_4_2 == 8
OpenGL_4_3 == 9
OpenGL_4_4 == 10
OpenGL_4_5 == 11
OpenGL_4_6 == 12
Vulkan_1_0 == 13
Vulkan_1_1 == 14
Vulkan_1_2 == 15

(* enum ovRenderer of oevSDK.h                                             *)
RENDERER_GDI == 0
RENDERER_GL2_0 == 1
RENDERER_GL3_0 == 2
RENDERER_GL3_1 == 3
RENDERER_GL3_2 == 4
RENDERER_GL3_3 == 5
RENDERER_GL4_0 == 6
RENDERER_GL4_1 == 7
RENDERER_GL4_2 == 8
RENDERER_GL4_3 == 9
RENDERER_GL4_4 == 10
RENDERER_GL4_5 == 11
RENDERER_GL4_6 == 12
RENDERER_VK1 == 13
MAX_RENDERER == 14

SingleCube == 0
ManyCubes == 1
Character == 2
ManyCharacters == 3
Raytracing == 4

RGB_Linear == 0
sRGB == 1
HDR == 2

Default == 0
PixelBuffer == 1
FramebufferObject == 2

(* The option bits of oevSDK.h that BuildXMLConfiguration uses.            *)
WGLDIAG_OPTION_FOG == 2^5
WGLDIAG_OPTION_CLIP_PLANE == 2^10
WGLDIAG_OPTION_FS == 2^11
WGLDIAG_OPTION_VSYNC == 2^12
WGLDIAG_OPTION_TRANSPARENCY == 2^13
WGLDIAG_OPTION_DEBUG == 2^20

(* WGLDIAG_OPTIONS_FS_EX is used by BuildXMLConfiguration but defined      *)
(* nowhere in the sources at hand (the SDK header predates it). The build  *)
(* fixes it; the model lets it be one of the two bits the header leaves    *)
(* unassigned below bit 20, or another name of the FS bit.                 *)
FsExCandidates == {2^9, 2^19, 2^11}

----------------------------------------------------------------------------
(* struct TestConfig with its default member initializers                  *)

TestConfig ==
    [renderer |-> OpenGL_4_6,
     fullscreen |-> FALSE, width |-> 1920, height |-> 1080, vsync |-> FALSE,
     fog |-> FALSE, transparency |-> FALSE, userClipPlane |-> FALSE,
     multisampleCount |-> 0, maxAnisotropy |-> 0, textureLOD |-> 0,
     fbFormat |-> RGB_Linear, fbType |-> Default,
     scene |-> SingleCube, testDurationSeconds |-> 10, enableDebugOutput |-> FALSE,
     pixelFormat |-> 1]

CreateDefaultConfig ==
    [TestConfig EXCEPT !.renderer = OpenGL_4_6, !.width = 1920, !.height = 1080,
                       !.scene = SingleCube, !.testDurationSeconds = 5]

CreatePerformanceConfig ==
    [TestConfig EXCEPT !.renderer = OpenGL_4_6, !.width = 1920, !.height = 1080,
                       !.scene = ManyCubes, !.testDurationSeconds = 30,
                       !.multisampleCount = 0, !.maxAnisotropy = 0]

CreateQualityConfig ==
    [TestConfig EXCEPT !.renderer = OpenGL_4_6, !.width = 1920, !.height = 1080,
                       !.scene = Character, !.testDurationSeconds = 15,
                       !.multisampleCount = 8, !.maxAnisotropy = 16,
                       !.fog = TRUE, !.transparency = TRUE, !.fbFormat = HDR]

----------------------------------------------------------------------------
(* std::to_string(int)                                                     *)

Digit(d) == SubSeq("0123456789", d + 1, d + 1)

(* A conversion that emits the low digit first.                            *)
RECURSIVE NatToString_LowDigitFirst(_)
NatToString_LowDigitFirst(n) ==
    IF n < 10 THEN Digit(n) ELSE Digit(n % 10) \o NatToString_LowDigitFirst(n \div 10)

RECURSIVE NatToString(_)
NatToString(n) ==
    IF n < 10 THEN Digit(n) ELSE NatToString(n \div 10) \o Digit(n % 10)

(* A conversion that drops the sign.                                       *)
to_string_Unsigned(n) == NatToString(IF n < 0 THEN -n ELSE n)

to_string(n) == IF n < 0 THEN "-" \o NatToString(-n) ELSE NatToString(n)

(* operator| on the non-negative ints the option constants are             *)
RECURSIVE BitOr(_, _)
BitOr(a, b) ==
    IF a = 0 THEN b
    ELSE IF b = 0 THEN a
    ELSE (IF a % 2 = 1 \/ b % 2 = 1 THEN 1 ELSE 0) + 2 * BitOr(a \div 2, b \div 2)

----------------------------------------------------------------------------
(* Utils::FindDisplayMode: the first index EnumDisplaySettings reports     *)
(* with the width and height asked for, -1 once the enumeration ends.      *)

EnumDisplaySettings(modeIndex) == modeIndex < Len(displayModes)

(* A search that compares the width only.                                  *)
RECURSIVE FindDisplayModeFrom_WidthOnly(_, _, _)
FindDisplayModeFrom_WidthOnly(width, height, modeIndex) ==
    IF EnumDisplaySettings(modeIndex)
    THEN IF width = displayModes[modeIndex + 1].dmPelsWidth
         THEN modeIndex
         ELSE FindDisplayModeFrom_WidthOnly(width, height, modeIndex + 1)
    ELSE -1

RECURSIVE FindDisplayModeFrom(_, _, _)
FindDisplayModeFrom(width, height, modeIndex) ==
    IF EnumDisplaySettings(modeIndex)
    THEN IF /\ width = displayModes[modeIndex + 1].dmPelsWidth
            /\ height = displayModes[modeIndex + 1].dmPelsHeight
         THEN modeIndex
         ELSE FindDisplayModeFrom(width, height, modeIndex + 1)
    ELSE -1

(* A search whose index is kept from one call to the next.                 *)
FindDisplayMode_ResumesSearch(width, height) ==
    FindDisplayModeFrom(width, height, Len(ser))

FindDisplayMode(width, height) == FindDisplayModeFrom(width, height, 0)

----------------------------------------------------------------------------
(* The serializer                                                          *)

CreateXMLElement(name, value) == "<" \o name \o ">" \o value \o "</" \o name \o ">\n"

(* A table that gives each Vulkan version its own string.                  *)
GetTestVersionString_VulkanVersions(renderer) ==
    CASE renderer = GDI \/ renderer = OpenGL_2_0 -> "2.0"
      [] renderer = OpenGL_3_0 -> "3.0"
      [] renderer = OpenGL_3_1 -> "3.1"
      [] renderer = OpenGL_3_2 -> "3.2"
      [] renderer = OpenGL_3_3 -> "3.3"
      [] renderer = OpenGL_4_0 -> "4.0"
      [] renderer = OpenGL_4_1 -> "4.1"
      [] renderer = OpenGL_4_2 -> "4.2"
      [] renderer = OpenGL_4_3 -> "4.3"
      [] renderer = OpenGL_4_4 -> "4.4"
      [] renderer = OpenGL_4_5 -> "4.5"
      [] renderer = OpenGL_4_6 -> "4.6"
      [] renderer = Vulkan_1_0 -> "1.0"
      [] renderer = Vulkan_1_1 -> "1.1"
      [] renderer = Vulkan_1_2 -> "1.2"
      [] OTHER -> "4.6"

GetTestVersionString(renderer) ==
    CASE renderer = GDI \/ renderer = OpenGL_2_0 -> "2.0"
      [] renderer = OpenGL_3_0 -> "3.0"
      [] renderer = OpenGL_3_1 -> "3.1"
      [] renderer = OpenGL_3_2 -> "3.2"
      [] renderer = OpenGL_3_3 -> "3.3"
      [] renderer = OpenGL_4_0 -> "4.0"
      [] renderer = OpenGL_4_1 -> "4.1"
      [] renderer = OpenGL_4_2 -> "4.2"
      [] renderer = OpenGL_4_3 -> "4.3"
      [] renderer = OpenGL_4_4 -> "4.4"
      [] renderer = OpenGL_4_5 -> "4.5"
      [] renderer = OpenGL_4_6 -> "4.6"
      [] renderer \in {Vulkan_1_0, Vulkan_1_1, Vulkan_1_2} -> "1.0"
      [] OTHER -> "4.6"

FramebufferFormatToString(format) ==
    CASE format = RGB_Linear -> "Linear"
      [] format = sRGB -> "sRGB"
      [] format = HDR -> "HDR"
      [] OTHER -> "Linear"

(* The spelling of the enumerator, for the third type.                     *)
FramebufferTypeToString_EnumSpelling(type) ==
    CASE type = Default -> "Default"
      [] type = PixelBuffer -> "PixelBuffer"
      [] type = FramebufferObject -> "FramebufferObject"
      [] OTHER -> "Default"

FramebufferTypeToString(type) ==
    CASE type = Default -> "Default"
      [] type = PixelBuffer -> "PixelBuffer"
      [] type = FramebufferObject -> "FrameBufferObject"
      [] OTHER -> "Default"

(* A bitmask whose vsync line sets the fullscreen bit.                     *)
OptionsBitmask_VsyncAsFs(config) ==
    LET o0 == 0
        o1 == IF config.fullscreen
              THEN BitOr(o0, BitOr(WGLDIAG_OPTION_FS, WGLDIAG_OPTIONS_FS_EX)) ELSE o0
        o2 == IF config.enableDebugOutput THEN BitOr(o1, WGLDIAG_OPTION_DEBUG) ELSE o1
        o3 == IF config.vsync THEN BitOr(o2, WGLDIAG_OPTION_FS) ELSE o2
        o4 == IF config.fog THEN BitOr(o3, WGLDIAG_OPTION_FOG) ELSE o3
        o5 == IF config.transparency THEN BitOr(o4, WGLDIAG_OPTION_TRANSPARENCY) ELSE o4
        o6 == IF config.userClipPlane THEN BitOr(o5, WGLDIAG_OPTION_CLIP_PLANE) ELSE o5
    IN  o6

(* Lines 249-255: the options bitmask.                                     *)
OptionsBitmask(config) ==
    LET o0 == 0
        o1 == IF config.fullscreen
              THEN BitOr(o0, BitOr(WGLDIAG_OPTION_FS, WGLDIAG_OPTIONS_FS_EX)) ELSE o0
        o2 == IF config.enableDebugOutput THEN BitOr(o1, WGLDIAG_OPTION_DEBUG) ELSE o1
        o3 == IF config.vsync THEN BitOr(o2, WGLDIAG_OPTION_VSYNC) ELSE o2
        o4 == IF config.fog THEN BitOr(o3, WGLDIAG_OPTION_FOG) ELSE o3
        o5 == IF config.transparency THEN BitOr(o4, WGLDIAG_OPTION_TRANSPARENCY) ELSE o4
        o6 == IF config.userClipPlane THEN BitOr(o5, WGLDIAG_OPTION_CLIP_PLANE) ELSE o5
    IN  o6

(* A serializer with the element order of the legacy run_rendering_test:   *)
(* fbformat is emitted right after option, and again in its place.         *)
BuildXMLConfiguration_LegacyOrder(config) ==
    CreateXMLElement("root",
        CreateXMLElement("option", to_string(OptionsBitmask(config)))
        \o CreateXMLElement("fbformat", FramebufferFormatToString(config.fbFormat))
        \o CreateXMLElement("duration", to_string(config.testDurationSeconds))
        \o CreateXMLElement("multisample", to_string(config.multisampleCount))
        \o CreateXMLElement("anisotropy", to_string(config.maxAnisotropy))
        \o CreateXMLElement("texturelod", to_string(config.textureLOD))
        \o CreateXMLElement("displaymode",
                            to_string(FindDisplayMode(config.width, config.height)))
        \o CreateXMLElement("renderer", to_string(config.renderer))
        \o CreateXMLElement("pixelformat", to_string(config.pixelFormat))
        \o CreateXMLElement("test", GetTestVersionString(config.renderer))
        \o CreateXMLElement("fbenable", FramebufferTypeToString(config.fbType))
        \o CreateXMLElement("fbformat", FramebufferFormatToString(config.fbFormat))
        \o CreateXMLElement("scene", to_string(config.scene))
        \o CreateXMLElement("width", to_string(config.width))
        \o CreateXMLElement("height", to_string(config.height)))

BuildXMLConfiguration(config) ==
    LET options == OptionsBitmask(config)
        rendererValue == config.renderer
        sceneValue == to_string(config.scene)
        fbFormatStr == FramebufferFormatToString(config.fbFormat)
        fbTypeStr == FramebufferTypeToString(config.fbType)
        testVersion == GetTestVersionString(config.renderer)
        xml ==
            CreateXMLElement("option", to_string(options))
            \o CreateXMLElement("duration", to_string(config.testDurationSeconds))
            \o CreateXMLElement("multisample", to_string(config.multisampleCount))
            \o CreateXMLElement("anisotropy", to_string(config.maxAnisotropy))
            \o CreateXMLElement("texturelod", to_string(config.textureLOD))
            \o CreateXMLElement("displaymode",
                                to_string(FindDisplayMode(config.width, config.height)))
            \o CreateXMLElement("renderer", to_string(rendererValue))
            \o CreateXMLElement("pixelformat", to_string(config.pixelFormat))
            \o CreateXMLElement("test", testVersion)
            \o CreateXMLElement("fbenable", fbTypeStr)
            \o CreateXMLElement("fbformat", fbFormatStr)
            \o CreateXMLElement("scene", sceneValue)
            \o CreateXMLElement("width", to_string(config.width))
            \o CreateXMLElement("height", to_string(config.height))
    IN  CreateXMLElement("root", xml)

----------------------------------------------------------------------------
(* The external library and the operating system                           *)

(* A pointer is a sequence: <<>> is nullptr, <<v>> points at v.            *)
nullptr == <<>>
PointerTo(v) == <<v>>

EntryPoints == {"oevInitWad", "oevReadCpuid", "oevRunRenderingTests"}

(* What one LoadLibraryA / GetProcAddress / oevInitWad round can meet:     *)
(* the file is absent (loads = FALSE), or it loads and lacks one of the    *)
(* three names or all of them, or exports all three and the resource      *)
(* package is rejected (a negative status) or accepted.                    *)
LibraryEnvs ==
    {[loads |-> FALSE, exports |-> {}, wadStatus |-> 0]}
    \cup {[loads |-> TRUE, exports |-> EntryPoints \ {missing}, wadStatus |-> 0] :
              missing \in EntryPoints}
    \cup {[loads |-> TRUE, exports |-> {}, wadStatus |-> 0]}
    \cup {[loads |-> TRUE, exports |-> EntryPoints, wadStatus |-> w] : w \in {-1, 0, 1}}

(* struct gvRenderingTestResult, as oevRunRenderingTests may return it.    *)
gvRenderingTestResult(index, fps, status) ==
    [index |-> index, fps |-> fps, result |-> status, next |-> nullptr]

(* A list of two records: head, whose next points to successor.            *)
Followed(head, successor) == PointerTo([head EXCEPT !.next = PointerTo(successor)])

LibResponses ==
    {nullptr,
     PointerTo(gvRenderingTestResult(1, 60, PointerTo("OK"))),
     PointerTo(gvRenderingTestResult(2, 0, PointerTo("FAILED"))),
     PointerTo(gvRenderingTestResult(3, 30, PointerTo("OK "))),
     PointerTo(gvRenderingTestResult(4, 45, nullptr)),
     Followed(gvRenderingTestResult(1, 60, PointerTo("OK")),
              gvRenderingTestResult(2, 0, PointerTo("FAILED"))),
     Followed(gvRenderingTestResult(2, 0, PointerTo("FAILED")),
              gvRenderingTestResult(1, 60, PointerTo("OK")))}

(* gvCpuid::Specification as oevReadCpuid fills it.                        *)
CpuSpecifications == {"Intel(R) Core(TM) i7", "AMD Ryzen 7"}

(* EnumDisplaySettings' lists: resolutions repeat (one per refresh rate).  *)
DEVMODE(w, h) == [dmPelsWidth |-> w, dmPelsHeight |-> h]

ModeLists ==
    {<<DEVMODE(1920, 1080), DEVMODE(1920, 1080)>>,
     <<DEVMODE(800, 600), DEVMODE(1920, 1080)>>,
     <<DEVMODE(800, 600)>>}

(* The external calls an operation makes, in order.                        *)
Call(fn, arg, res) == [fn |-> fn, arg |-> arg, res |-> res]

(* strncmp(a, b, strlen(b)): only the first characters are compared.       *)
strcmp_PrefixOnly(a, b) ==
    IF Len(a) >= Len(b) /\ SubSeq(a, 1, Len(b)) = b THEN 0 ELSE 1

(* strcmp: 0 exactly when the two C strings are equal (only the test       *)
(* against 0 is used, so every difference is reported as 1).               *)
RECURSIVE strcmp(_, _)
strcmp(a, b) ==
    IF a = "" /\ b = "" THEN 0
    ELSE IF a = "" \/ b = "" THEN 1
    ELSE IF Head(a) = Head(b) THEN strcmp(Tail(a), Tail(b))
    ELSE 1

----------------------------------------------------------------------------
(* RenderingTester                                                         *)

(* The object an operation works on.                                       *)
This ==
    [m_dllPath |-> m_dllPath, m_resourcePath |-> m_resourcePath,
     m_initialized |-> m_initialized, m_lastError |-> m_lastError, m_pImpl |-> m_pImpl]

(* class Impl's default member initializers.                               *)
Impl ==
    [hLibrary |-> nullptr, funcInitWad |-> nullptr, funcReadCpuid |-> nullptr,
     funcRunRenderingTests |-> nullptr]

(* The arguments the constructor is given.                                 *)
ConstructorArgs ==
    {[dllPath |-> "", resourcePath |-> ""],
     [dllPath |-> "C:\\glview", resourcePath |-> "assets\\GLVIEW.RMX"]}

(* Impl::~Impl: [calls].                                                   *)
DestroyImpl(impl) ==
    [calls |-> IF impl.hLibrary # nullptr
               THEN <<Call("FreeLibrary", impl.hLibrary, TRUE)>>
               ELSE <<>>]

(* RenderingTester::RenderingTester                                        *)
RenderingTester(dllPath, resourcePath) ==
    [m_dllPath |-> dllPath,
     m_resourcePath |-> IF resourcePath = "" THEN "GLVIEW.RMX" ELSE resourcePath,
     m_initialized |-> FALSE, m_lastError |-> "", m_pImpl |-> Impl]

(* TestResult::TestResult                                                  *)
TestResult == [testIndex |-> 0, passed |-> FALSE, averageFPS |-> 0, errorMessage |-> ""]

GetProcAddress(env, name) == IF name \in env.exports THEN PointerTo(name) ELSE nullptr

(* A LoadDLL that returns without looking at funcReadCpuid.                *)
LoadDLL_IgnoresReadCpuid(impl, dllPath, env) ==
    LET fullPath == IF dllPath = "" THEN "infogl.dll" ELSE dllPath \o "\\infogl.dll"
        hLibrary == IF env.loads THEN PointerTo("infogl.dll") ELSE nullptr
        loadCall == <<Call("LoadLibraryA", fullPath, hLibrary)>>
    IN  IF hLibrary = nullptr
        THEN [impl |-> [impl EXCEPT !.hLibrary = hLibrary], value |-> FALSE,
              calls |-> loadCall]
        ELSE LET bound ==
                     [impl EXCEPT
                        !.hLibrary = hLibrary,
                        !.funcInitWad = GetProcAddress(env, "oevInitWad"),
                        !.funcReadCpuid = GetProcAddress(env, "oevReadCpuid"),
                        !.funcRunRenderingTests = GetProcAddress(env, "oevRunRenderingTests")]
             IN  [impl |-> bound,
                  value |-> /\ bound.funcInitWad # nullptr
                            /\ bound.funcRunRenderingTests # nullptr,
                  calls |-> loadCall
                            \o <<Call("GetProcAddress", "oevInitWad", bound.funcInitWad),
                                 Call("GetProcAddress", "oevReadCpuid", bound.funcReadCpuid),
                                 Call("GetProcAddress", "oevRunRenderingTests",
                                      bound.funcRunRenderingTests)>>]

(* Impl::LoadDLL: [impl, value, calls].                                    *)
LoadDLL(impl, dllPath, env) ==
    LET fullPath == IF dllPath = "" THEN "infogl.dll" ELSE dllPath \o "\\infogl.dll"
        hLibrary == IF env.loads THEN PointerTo("infogl.dll") ELSE nullptr
        loadCall == <<Call("LoadLibraryA", fullPath, hLibrary)>>
    IN  IF hLibrary = nullptr
        THEN [impl |-> [impl EXCEPT !.hLibrary = hLibrary], value |-> FALSE,
              calls |-> loadCall]
        ELSE LET bound ==
                     [impl EXCEPT
                        !.hLibrary = hLibrary,
                        !.funcInitWad = GetProcAddress(env, "oevInitWad"),
                        !.funcReadCpuid = GetProcAddress(env, "oevReadCpuid"),
                        !.funcRunRenderingTests = GetProcAddress(env, "oevRunRenderingTests")]
             IN  [impl |-> bound,
                  value |-> /\ bound.funcInitWad # nullptr
                            /\ bound.funcReadCpuid # nullptr
                            /\ bound.funcRunRenderingTests # nullptr,
                  calls |-> loadCall
                            \o <<Call("GetProcAddress", "oevInitWad", bound.funcInitWad),
                                 Call("GetProcAddress", "oevReadCpuid", bound.funcReadCpuid),
                                 Call("GetProcAddress", "oevRunRenderingTests",
                                      bound.funcRunRenderingTests)>>]

(* An InitLibrary whose answer is always true.                             *)
InitLibrary_AlwaysTrue(self, env) ==
    [LoadDLL(self.m_pImpl, self.m_dllPath, env) EXCEPT !.value = TRUE]

(* RenderingTester::InitLibrary                                            *)
InitLibrary(self, env) == LoadDLL(self.m_pImpl, self.m_dllPath, env)

(* A SetLastError that stores nothing.                                     *)
SetLastError_StoresNothing(self, error) == self

(* RenderingTester::SetLastError                                           *)
SetLastError(self, error) == [self EXCEPT !.m_lastError = error]

(* An Initialize that takes only a positive status for success.            *)
Initialize_RejectsZero(self, env) ==
    IF self.m_initialized
    THEN [self |-> self, value |-> TRUE, calls |-> <<>>]
    ELSE LET lib == InitLibrary(self, env)
             loaded == [self EXCEPT !.m_pImpl = lib.impl]
         IN  IF ~lib.value
             THEN [self |-> SetLastError(loaded,
                                "Failed to load infogl.dll or required functions"),
                   value |-> FALSE, calls |-> lib.calls]
             ELSE LET wadCall == <<Call("oevInitWad", loaded.m_resourcePath, env.wadStatus)>>
                  IN  IF env.wadStatus <= 0
                      THEN [self |-> SetLastError(loaded,
                                         "Failed to initialize resource package: "
                                         \o loaded.m_resourcePath),
                            value |-> FALSE, calls |-> lib.calls \o wadCall]
                      ELSE [self |-> [loaded EXCEPT !.m_initialized = TRUE],
                            value |-> TRUE, calls |-> lib.calls \o wadCall]

(* An Initialize without the test of m_initialized at its head.            *)
Initialize_NoEarlyReturn(self, env) ==
    LET lib == InitLibrary(self, env)
        loaded == [self EXCEPT !.m_pImpl = lib.impl]
    IN  IF ~lib.value
        THEN [self |-> SetLastError(loaded,
                           "Failed to load infogl.dll or required functions"),
              value |-> FALSE, calls |-> lib.calls]
        ELSE LET wadCall == <<Call("oevInitWad", loaded.m_resourcePath, env.wadStatus)>>
             IN  IF env.wadStatus < 0
                 THEN [self |-> SetLastError(loaded,
                                    "Failed to initialize resource package: "
                                    \o loaded.m_resourcePath),
                       value |-> FALSE, calls |-> lib.calls \o wadCall]
                 ELSE [self |-> [loaded EXCEPT !.m_initialized = TRUE],
                       value |-> TRUE, calls |-> lib.calls \o wadCall]

(* RenderingTester::Initialize: [self, value, calls]. Utils::              *)
(* SetupDPIAwareness touches only the process' DPI setting, which nothing  *)
(* here reads.                                                             *)
Initialize(self, env) ==
    IF self.m_initialized
    THEN [self |-> self, value |-> TRUE, calls |-> <<>>]
    ELSE LET lib == InitLibrary(self, env)
             loaded == [self EXCEPT !.m_pImpl = lib.impl]
         IN  IF ~lib.value
             THEN [self |-> SetLastError(loaded,
                                "Failed to load infogl.dll or required functions"),
                   value |-> FALSE, calls |-> lib.calls]
             ELSE LET wadCall == <<Call("oevInitWad", loaded.m_resourcePath, env.wadStatus)>>
                  IN  IF env.wadStatus < 0
                      THEN [self |-> SetLastError(loaded,
                                         "Failed to initialize resource package: "
                                         \o loaded.m_resourcePath),
                            value |-> FALSE, calls |-> lib.calls \o wadCall]
                      ELSE [self |-> [loaded EXCEPT !.m_initialized = TRUE],
                            value |-> TRUE, calls |-> lib.calls \o wadCall]

(* A translation that leaves averageFPS as constructed.                    *)
ProcessResults_DropsFps(testResults) ==
    IF testResults # nullptr /\ testResults[1].result # nullptr
    THEN IF strcmp(testResults[1].result[1], "OK") = 0
         THEN [TestResult EXCEPT !.passed = TRUE,
                                 !.testIndex = testResults[1].index]
         ELSE [TestResult EXCEPT !.passed = FALSE,
                                 !.errorMessage = testResults[1].result[1],
                                 !.testIndex = testResults[1].index]
    ELSE [TestResult EXCEPT !.errorMessage = "No test results returned"]

(* A translation that walks the list through next, as oevTest.cpp does,    *)
(* and reports the first record that is not "OK".                          *)
RECURSIVE ProcessResults_WalksList(_)
ProcessResults_WalksList(testResults) ==
    IF testResults # nullptr /\ testResults[1].result # nullptr
    THEN IF strcmp(testResults[1].result[1], "OK") = 0
         THEN LET passed == [TestResult EXCEPT !.passed = TRUE,
                                               !.averageFPS = testResults[1].fps,
                                               !.testIndex = testResults[1].index]
              IN  IF testResults[1].next = nullptr THEN passed
                  ELSE LET rest == ProcessResults_WalksList(testResults[1].next)
                       IN  IF rest.passed THEN passed ELSE rest
         ELSE [TestResult EXCEPT !.passed = FALSE,
                                 !.errorMessage = testResults[1].result[1],
                                 !.testIndex = testResults[1].index]
    ELSE [TestResult EXCEPT !.errorMessage = "No test results returned"]

(* Lines 143-161: the translation of the library's answer.                 *)
ProcessResults(testResults) ==
    IF testResults # nullptr /\ testResults[1].result # nullptr
    THEN IF strcmp(testResults[1].result[1], "OK") = 0
         THEN [TestResult EXCEPT !.passed = TRUE,
                                 !.averageFPS = testResults[1].fps,
                                 !.testIndex = testResults[1].index]
         ELSE [TestResult EXCEPT !.passed = FALSE,
                                 !.errorMessage = testResults[1].result[1],
                                 !.testIndex = testResults[1].index]
    ELSE [TestResult EXCEPT !.errorMessage = "No test results returned"]

(* A RunSingleTest that returns the constructed result, without the last   *)
(* error, when initialization fails.                                       *)
RunSingleTest_DropsLastError(self, config, env, testResults) ==
    LET init == IF ~self.m_initialized THEN Initialize(self, env)
                ELSE [self |-> self, value |-> TRUE, calls |-> <<>>]
    IN  IF ~init.value
        THEN [self |-> init.self, value |-> TestResult,
              calls |-> init.calls \o <<Call("RunSingleTest", config, TestResult)>>,
              sent |-> <<>>]
        ELSE LET xmlConfig == BuildXMLConfiguration(config)
                 processed == ProcessResults(testResults)
             IN  [self |-> init.self, value |-> processed,
                  calls |-> init.calls
                            \o <<Call("oevRunRenderingTests", xmlConfig, testResults),
                                 Call("RunSingleTest", config, processed)>>,
                  sent |-> <<[cfg |-> config, modes |-> displayModes, xml |-> xmlConfig]>>]

(* A RunSingleTest that asks the library a second time after a failure.    *)
RunSingleTest_RetriesOnce(self, config, env, testResults) ==
    LET init == IF ~self.m_initialized THEN Initialize(self, env)
                ELSE [self |-> self, value |-> TRUE, calls |-> <<>>]
    IN  IF ~init.value
        THEN LET failed == [TestResult EXCEPT !.errorMessage = init.self.m_lastError]
             IN  [self |-> init.self, value |-> failed,
                  calls |-> init.calls \o <<Call("RunSingleTest", config, failed)>>,
                  sent |-> <<>>]
        ELSE LET xmlConfig == BuildXMLConfiguration(config)
                 processed == ProcessResults(testResults)
                 asked == <<Call("oevRunRenderingTests", xmlConfig, testResults)>>
             IN  [self |-> init.self, value |-> processed,
                  calls |-> init.calls
                            \o asked
                            \o (IF processed.passed THEN <<>> ELSE asked)
                            \o <<Call("RunSingleTest", config, processed)>>,
                  sent |-> <<[cfg |-> config, modes |-> displayModes, xml |-> xmlConfig]>>]

(* A RunSingleTest that goes on to the library whatever Initialize         *)
(* returned.                                                               *)
RunSingleTest_IgnoresInitialize(self, config, env, testResults) ==
    LET init == IF ~self.m_initialized THEN Initialize(self, env)
                ELSE [self |-> self, value |-> TRUE, calls |-> <<>>]
        xmlConfig == BuildXMLConfiguration(config)
        processed == ProcessResults(testResults)
    IN  [self |-> init.self, value |-> processed,
         calls |-> init.calls
                   \o <<Call("oevRunRenderingTests", xmlConfig, testResults),
                        Call("RunSingleTest", config, processed)>>,
         sent |-> <<[cfg |-> config, modes |-> displayModes, xml |-> xmlConfig]>>]

(* RenderingTester::RunSingleTest: [self, value, calls, sent]; env is what *)
(* an initialization attempt meets and testResults what the library        *)
(* answers. sent is what it serialized, if it did; its own return closes   *)
(* its calls.                                                              *)
RunSingleTest(self, config, env, testResults) ==
    LET init == IF ~self.m_initialized THEN Initialize(self, env)
                ELSE [self |-> self, value |-> TRUE, calls |-> <<>>]
    IN  IF ~init.value
        THEN LET failed == [TestResult EXCEPT !.errorMessage = init.self.m_lastError]
             IN  [self |-> init.self, value |-> failed,
                  calls |-> init.calls \o <<Call("RunSingleTest", config, failed)>>,
                  sent |-> <<>>]
        ELSE LET xmlConfig == BuildXMLConfiguration(config)
                 processed == ProcessResults(testResults)
             IN  [self |-> init.self, value |-> processed,
                  calls |-> init.calls
                            \o <<Call("oevRunRenderingTests", xmlConfig, testResults),
                                 Call("RunSingleTest", config, processed)>>,
                  sent |-> <<[cfg |-> config, modes |-> displayModes, xml |-> xmlConfig]>>]

(* RenderingTester::GetCPUInfo: [value, calls].                            *)
GetCPUInfo(self, specification) ==
    IF ~self.m_initialized \/ self.m_pImpl.funcReadCpuid = nullptr
    THEN [value |-> "CPU information not available", calls |-> <<>>]
    ELSE [value |-> specification,
          calls |-> <<Call("oevReadCpuid", "cpuInfo", specification)>>]

----------------------------------------------------------------------------
(* Bounds and inputs                                                       *)

(* The most LoadLibraryA calls that return a handle.                       *)
MaxLoads == 2

(* The longest vector RunMultipleTests is given.                           *)
MaxConfigs == 2

(* The configurations the callers pass.                                    *)
TestConfigs == {CreateDefaultConfig, CreateQualityConfig}

RECURSIVE SeqsUpTo(_, _)
SeqsUpTo(S, n) ==
    IF n = 0 THEN {<<>>}
    ELSE LET shorter == SeqsUpTo(S, n - 1)
         IN  shorter \cup {Append(q, x) : q \in shorter, x \in S}

ConfigLists == SeqsUpTo(TestConfigs, MaxConfigs)

NoReturn == [op |-> "none", value |-> FALSE]

----------------------------------------------------------------------------
(* The state after construction                                            *)

InitBuild ==
    /\ WGLDIAG_OPTIONS_FS_EX \in FsExCandidates
    /\ displayModes \in ModeLists

InitTester ==
    \E args \in ConstructorArgs :
        LET self == RenderingTester(args.dllPath, args.resourcePath)
        IN  /\ m_dllPath = self.m_dllPath
            /\ m_resourcePath = self.m_resourcePath
            /\ m_initialized = self.m_initialized
            /\ m_lastError = self.m_lastError
            /\ m_pImpl = self.m_pImpl

(* The tester RenderingTester tester; declares.                             *)
InitDefaultTester ==
    \E self \in {RenderingTester("", "")} :
        /\ m_dllPath = self.m_dllPath
        /\ m_resourcePath = self.m_resourcePath
        /\ m_initialized = self.m_initialized
        /\ m_lastError = self.m_lastError
        /\ m_pImpl = self.m_pImpl

InitCaller ==
    /\ pc = "idle"
    /\ configs = <<>>
    /\ progressCallback = FALSE
    /\ i = 0
    /\ result = TestResult
    /\ results = <<>>
    /\ calls = <<>>
    /\ ser = <<>>
    /\ ret = NoReturn
    /\ libraryLoads = 0
    /\ libraryFrees = 0
    /\ wadAccepted = FALSE
    /\ initFailed = FALSE

(* oevTest.cpp has not started.                                            *)
InitLegacyIdle ==
    /\ lpc = "WinMain"
    /\ gdm_n = 0
    /\ infogl = [loads |-> FALSE, exports |-> {}]

Init ==
    /\ InitBuild
    /\ InitTester
    /\ InitCaller
    /\ InitLegacyIdle
    /\ xin = TestConfig
    /\ xout = ""

(* The LoadLibraryA calls among cs that returned a handle, and the         *)
(* FreeLibrary calls among cs.                                             *)
SuccessfulLoads(cs) ==
    Cardinality({k \in 1 .. Len(cs) : cs[k].fn = "LoadLibraryA" /\ cs[k].res # nullptr})

Releases(cs) == Cardinality({k \in 1 .. Len(cs) : cs[k].fn = "FreeLibrary"})

(* Whether an oevInitWad call among cs returned a non-negative status.     *)
Accepted(cs) == \E k \in 1 .. Len(cs) : cs[k].fn = "oevInitWad" /\ cs[k].res >= 0

(* Whether the calls cs of one RunSingleTest hold an initialization        *)
(* attempt that failed: Initialize was entered (LoadLibraryA was called)   *)
(* and the library was never asked to run the test.                        *)
AttemptFailed(cs) ==
    /\ \E k \in 1 .. Len(cs) : cs[k].fn = "LoadLibraryA"
    /\ \A k \in 1 .. Len(cs) : cs[k].fn # "oevRunRenderingTests"

(* The last two of the serializations so far, after one more or none.      *)
Remember(sent) ==
    LET all == ser \o sent
    IN  IF Len(all) <= 2 THEN all ELSE SubSeq(all, Len(all) - 1, Len(all))

(* What an initialization attempt can meet: nothing is attempted once the  *)
(* tester is initialized, so nothing is drawn then.                        *)
EnvsMet == IF m_initialized THEN {[loads |-> FALSE, exports |-> {}, wadStatus |-> 0]}
           ELSE {env \in LibraryEnvs : env.loads => libraryLoads < MaxLoads}

(* What the library can answer: it is asked only when the tester is, or    *)
(* becomes, initialized.                                                   *)
Answers(env) == IF Initialize(This, env).value THEN LibResponses ELSE {nullptr}

(* The object after an operation.                                          *)
Becomes(self) ==
    /\ m_dllPath' = self.m_dllPath
    /\ m_resourcePath' = self.m_resourcePath
    /\ m_initialized' = self.m_initialized
    /\ m_lastError' = self.m_lastError
    /\ m_pImpl' = self.m_pImpl

----------------------------------------------------------------------------
(* The operations a caller invokes                                         *)

CallInitialize ==
    /\ pc = "idle"
    /\ \E env \in EnvsMet :
       \E r \in {Initialize(This, env)} :
               /\ Becomes(r.self)
               /\ calls' = r.calls
               /\ ret' = [op |-> "Initialize", value |-> r.value]
               /\ libraryLoads' = libraryLoads + SuccessfulLoads(r.calls)
               /\ wadAccepted' = (wadAccepted \/ Accepted(r.calls))
               /\ initFailed' = (initFailed \/ ~r.value)
    /\ UNCHANGED <<WGLDIAG_OPTIONS_FS_EX, displayModes, batchVars, ser, xmlVars, libraryFrees,
                   legacyVars>>

CallRunSingleTest ==
    /\ pc = "idle"
    /\ \E config \in TestConfigs, env \in EnvsMet :
       \E testResults \in Answers(env) :
       \E r \in {RunSingleTest(This, config, env, testResults)} :
               /\ Becomes(r.self)
               /\ calls' = r.calls
               /\ ser' = Remember(r.sent)
               /\ ret' = [op |-> "RunSingleTest", value |-> r.value]
               /\ libraryLoads' = libraryLoads + SuccessfulLoads(r.calls)
               /\ wadAccepted' = (wadAccepted \/ Accepted(r.calls))
               /\ initFailed' = (initFailed \/ AttemptFailed(r.calls))
    /\ UNCHANGED <<WGLDIAG_OPTIONS_FS_EX, displayModes, batchVars, xmlVars, libraryFrees,
                   legacyVars>>

CallGetCPUInfo ==
    /\ pc = "idle"
    /\ \E specification \in CpuSpecifications :
       \E r \in {GetCPUInfo(This, specification)} :
               /\ calls' = r.calls
               /\ ret' = [op |-> "GetCPUInfo", value |-> r.value]
    /\ UNCHANGED <<testerVars, WGLDIAG_OPTIONS_FS_EX, displayModes, batchVars, ser, xmlVars, libVars,
                   legacyVars, attemptVars>>

(* RunMultipleTests, entered: results is empty and the loop starts at 0.   *)
BatchStart ==
    /\ pc = "idle"
    /\ \E cs \in ConfigLists, cb \in BOOLEAN :
           /\ configs' = cs
           /\ progressCallback' = cb
    /\ results' = <<>>
    /\ i' = 0
    /\ result' = TestResult
    /\ calls' = <<>>
    /\ ret' = NoReturn
    /\ pc' = "loop"
    /\ UNCHANGED <<testerVars, WGLDIAG_OPTIONS_FS_EX, displayModes, ser, xmlVars, libVars,
                   legacyVars, attemptVars>>

(* A line 173 where a failed initialization raises RenderTestException     *)
(* with the last error: the exception leaves RunMultipleTests and the      *)
(* vector built so far is lost to the caller.                              *)
BatchTest_RaisesOnFailedInitialize ==
    /\ pc = "loop"
    /\ i < Len(configs)
    /\ \E env \in EnvsMet :
       \E testResults \in Answers(env) :
       \E r \in {RunSingleTest(This, configs[i + 1], env, testResults)} :
               /\ Becomes(r.self)
               /\ calls' = calls \o r.calls
               /\ ser' = Remember(r.sent)
               /\ libraryLoads' = libraryLoads + SuccessfulLoads(r.calls)
               /\ wadAccepted' = (wadAccepted \/ Accepted(r.calls))
               /\ initFailed' = (initFailed \/ AttemptFailed(r.calls))
               /\ IF AttemptFailed(r.calls)
                  THEN /\ pc' = "idle"
                       /\ ret' = [op |-> "RenderTestException",
                                  value |-> r.self.m_lastError]
                       /\ result' = result
                  ELSE /\ pc' = "push"
                       /\ ret' = ret
                       /\ result' = r.value
    /\ UNCHANGED <<WGLDIAG_OPTIONS_FS_EX, displayModes, configs, progressCallback, i,
                   results, xmlVars, libraryFrees,
                   legacyVars>>

(* Line 173: TestResult result = RunSingleTest(configs[i]).                *)
BatchTest ==
    /\ pc = "loop"
    /\ i < Len(configs)
    /\ \E env \in EnvsMet :
       \E testResults \in Answers(env) :
       \E r \in {RunSingleTest(This, configs[i + 1], env, testResults)} :
               /\ Becomes(r.self)
               /\ calls' = calls \o r.calls
               /\ ser' = Remember(r.sent)
               /\ result' = r.value
               /\ libraryLoads' = libraryLoads + SuccessfulLoads(r.calls)
               /\ wadAccepted' = (wadAccepted \/ Accepted(r.calls))
               /\ initFailed' = (initFailed \/ AttemptFailed(r.calls))
    /\ pc' = "push"
    /\ UNCHANGED <<WGLDIAG_OPTIONS_FS_EX, displayModes, configs, progressCallback, i,
                   results, ret, xmlVars, libraryFrees,
                   legacyVars>>

(* results.insert(results.begin(), result)                                 *)
BatchPush_Prepends ==
    /\ pc = "push"
    /\ results' = <<result>> \o results
    /\ pc' = IF progressCallback THEN "callback" ELSE "next"
    /\ UNCHANGED <<testerVars, WGLDIAG_OPTIONS_FS_EX, displayModes, configs,
                   progressCallback, i, result, calls, ser, ret, xmlVars, libVars,
                   legacyVars, attemptVars>>

(* Line 174: results.push_back(result).                                    *)
BatchPush ==
    /\ pc = "push"
    /\ results' = Append(results, result)
    /\ pc' = IF progressCallback THEN "callback" ELSE "next"
    /\ UNCHANGED <<testerVars, WGLDIAG_OPTIONS_FS_EX, displayModes, configs,
                   progressCallback, i, result, calls, ser, ret, xmlVars, libVars,
                   legacyVars, attemptVars>>

(* progressCallback(i, configs.size(), result)                             *)
BatchCallback_ZeroBased ==
    /\ pc = "callback"
    /\ calls' = Append(calls, Call("progressCallback", <<i, Len(configs)>>, result))
    /\ pc' = "next"
    /\ UNCHANGED <<testerVars, WGLDIAG_OPTIONS_FS_EX, displayModes, configs,
                   progressCallback, i, result, results, ser, ret, xmlVars, libVars,
                   legacyVars, attemptVars>>

(* Lines 176-178: progressCallback(i + 1, configs.size(), result).         *)
BatchCallback ==
    /\ pc = "callback"
    /\ calls' = Append(calls, Call("progressCallback", <<i + 1, Len(configs)>>, result))
    /\ pc' = "next"
    /\ UNCHANGED <<testerVars, WGLDIAG_OPTIONS_FS_EX, displayModes, configs,
                   progressCallback, i, result, results, ser, ret, xmlVars, libVars,
                   legacyVars, attemptVars>>

(* Line 172: ++i.                                                          *)
BatchNext ==
    /\ pc = "next"
    /\ i' = i + 1
    /\ pc' = "loop"
    /\ UNCHANGED <<testerVars, WGLDIAG_OPTIONS_FS_EX, displayModes, configs,
                   progressCallback, result, results, calls, ser, ret, xmlVars, libVars,
                   legacyVars, attemptVars>>

(* A loop that may also be left after a failed test.                       *)
BatchReturn_AfterFailure ==
    /\ pc = "loop"
    /\ \/ ~(i < Len(configs))
       \/ i > 0 /\ ~results[i].passed
    /\ ret' = [op |-> "RunMultipleTests", value |-> results]
    /\ pc' = "idle"
    /\ UNCHANGED <<testerVars, WGLDIAG_OPTIONS_FS_EX, displayModes, configs,
                   progressCallback, i, result, results, calls, ser, xmlVars, libVars,
                   legacyVars, attemptVars>>

(* Line 181: return results.                                               *)
BatchReturn ==
    /\ pc = "loop"
    /\ ~(i < Len(configs))
    /\ ret' = [op |-> "RunMultipleTests", value |-> results]
    /\ pc' = "idle"
    /\ UNCHANGED <<testerVars, WGLDIAG_OPTIONS_FS_EX, displayModes, configs,
                   progressCallback, i, result, results, calls, ser, xmlVars, libVars,
                   legacyVars, attemptVars>>

(* RenderingTester::~RenderingTester: m_pImpl is destroyed, and with it    *)
(* Impl::~Impl runs. No operation follows.                                 *)
Destroy ==
    /\ pc = "idle"
    /\ \E r \in {DestroyImpl(m_pImpl)} :
           /\ calls' = r.calls
           /\ libraryFrees' = libraryFrees + Releases(r.calls)
    /\ ret' = [op |-> "~RenderingTester", value |-> FALSE]
    /\ pc' = "destroyed"
    /\ UNCHANGED <<testerVars, WGLDIAG_OPTIONS_FS_EX, displayModes, configs,
                   progressCallback, i, result, results, ser, xmlVars, libraryLoads,
                   legacyVars, attemptVars>>

(* The operating system changes the list of display modes (a monitor is    *)
(* attached, the driver is replaced, a remote session begins).             *)
DisplayChange ==
    /\ \E modes \in ModeLists \ {displayModes} : displayModes' = modes
    /\ UNCHANGED <<testerVars, WGLDIAG_OPTIONS_FS_EX, batchVars, calls, ser, ret, xmlVars, libVars,
                   legacyVars, attemptVars>>

(* The single-call operations of the tester, and the display.             *)
Next ==
    \/ CallInitialize
    \/ CallRunSingleTest
    \/ CallGetCPUInfo
    \/ DisplayChange
    \/ Destroy

Spec == Init /\ [][Next]_vars

(* RunMultipleTests on a default-constructed tester, given to it fresh or  *)
(* after calls of Initialize.                                              *)
InitBatch ==
    /\ WGLDIAG_OPTIONS_FS_EX = 2^9
    /\ displayModes = <<DEVMODE(800, 600), DEVMODE(1920, 1080)>>
    /\ InitDefaultTester
    /\ InitCaller
    /\ InitLegacyIdle
    /\ xin = TestConfig
    /\ xout = ""

NextBatch ==
    \/ CallInitialize
    \/ BatchStart
    \/ BatchTest
    \/ BatchPush
    \/ BatchCallback
    \/ BatchNext
    \/ BatchReturn

SpecBatch == InitBatch /\ [][NextBatch]_vars

----------------------------------------------------------------------------
(* The serializer on its own: a TestConfig is drawn, under any build and   *)
(* any display, and BuildXMLConfiguration is applied to it.                *)

Flags == {"fullscreen", "enableDebugOutput", "vsync", "fog", "transparency", "userClipPlane"}

WithFlags(config, on) ==
    [config EXCEPT !.fullscreen = "fullscreen" \in on,
                   !.enableDebugOutput = "enableDebugOutput" \in on,
                   !.vsync = "vsync" \in on,
                   !.fog = "fog" \in on,
                   !.transparency = "transparency" \in on,
                   !.userClipPlane = "userClipPlane" \in on]

(* Values no check of the serializer's would let through: ints that are   *)
(* zero, negative or as large as an int gets, in all seven int fields at   *)
(* once and in one field at a time, and enum values outside their enums.   *)
IntExtremes == {0, -1, -4096, 100000, 2147483647, -2147483647}

UnvalidatedConfigs ==
    {[TestConfig EXCEPT !.renderer = e, !.scene = e,
                        !.width = v, !.height = v, !.testDurationSeconds = v,
                        !.multisampleCount = v, !.maxAnisotropy = v, !.textureLOD = v,
                        !.pixelFormat = v] :
         e \in {-1, 16, 2147483647}, v \in IntExtremes}
    \cup {[CreateQualityConfig EXCEPT ![f] = v] :
              f \in {"width", "height", "testDurationSeconds", "multisampleCount",
                     "maxAnisotropy", "textureLOD", "pixelFormat"},
              v \in {0, -7}}
    \cup {[CreateDefaultConfig EXCEPT !.renderer = e] : e \in {-1, 16, 17, 99}}
    \cup {[CreateDefaultConfig EXCEPT !.scene = e] : e \in {-1, 5, 99}}
    \cup {[CreateDefaultConfig EXCEPT !.fbFormat = f, !.fbType = t] :
              f \in {-1, RGB_Linear, sRGB, HDR, 3}, t \in {-1, Default, PixelBuffer,
                                                          FramebufferObject, 3}}

(* Every combination of the six flags, on three configurations; and the    *)
(* factory configurations with every renderer, scene and framebuffer       *)
(* value, in range and next to it, and other sizes and counts.             *)
XmlConfigs ==
    {WithFlags(c, on) :
         c \in {CreateDefaultConfig, CreateQualityConfig,
                [CreatePerformanceConfig EXCEPT !.width = 800, !.height = 600]},
         on \in SUBSET Flags}
    \cup {TestConfig, CreateDefaultConfig, CreatePerformanceConfig, CreateQualityConfig}
    \cup {[CreateDefaultConfig EXCEPT !.renderer = r] : r \in GDI .. Vulkan_1_2}
    \cup {[CreateDefaultConfig EXCEPT !.scene = sc, !.fbFormat = f, !.fbType = f] :
              sc \in SingleCube .. Raytracing, f \in RGB_Linear .. HDR}
    \cup {[CreateQualityConfig EXCEPT !.width = w, !.height = h, !.testDurationSeconds = d,
                                      !.multisampleCount = m, !.textureLOD = m,
                                      !.pixelFormat = d] :
              w \in {640, 1024}, h \in {480, 768}, d \in {0, 7, 120}, m \in {2, 16}}
    \cup UnvalidatedConfigs

XmlModeLists ==
    ModeLists
    \cup {<<>>,
          <<DEVMODE(1920, 1200), DEVMODE(1280, 1080), DEVMODE(1920, 1080),
            DEVMODE(800, 600), DEVMODE(1920, 1080)>>}

InitXML ==
    /\ WGLDIAG_OPTIONS_FS_EX \in FsExCandidates
    /\ displayModes \in XmlModeLists
    /\ InitDefaultTester
    /\ InitCaller
    /\ InitLegacyIdle
    /\ xin \in XmlConfigs
    /\ xout = ""

Serialize ==
    /\ xout = ""
    /\ xout' = BuildXMLConfiguration(xin)
    /\ UNCHANGED <<testerVars, WGLDIAG_OPTIONS_FS_EX, displayModes, batchVars, calls, ser,
                   ret, xin, libVars,
                   legacyVars, attemptVars>>

NextXML == Serialize

SpecXML == InitXML /\ [][NextXML]_vars

----------------------------------------------------------------------------
(* The legacy program, oevTest.cpp: WinMain and run_rendering_test         *)

(* The resolution WinMain passes to run_rendering_test.                    *)
LegacyWidth == 1920
LegacyHeight == 1080

(* The infogl.dll a machine may have, and what oevInitWad may answer.      *)
LegacyLibraries == {[loads |-> env.loads, exports |-> env.exports] : env \in LibraryEnvs}

WadStatuses == {env.wadStatus : env \in LibraryEnvs}

(* A call through a function pointer. Through nullptr the behaviour is     *)
(* undefined: the process is ended by an access violation, or goes on      *)
(* with whatever the call seems to return.                                 *)
Through(pointer, name, arg, res) ==
    IF pointer # nullptr THEN Call(name, arg, res) ELSE Call("nullptr", name, res)

AccessViolation == [op |-> "access violation", value |-> 0]

Returned(code) == [op |-> "WinMain", value |-> code]

(* WinMain up to its call of run_rendering_test: [calls, lpc, ret].        *)
WinMainBody(dll, status, crash) ==
    LET library == IF dll.loads THEN PointerTo("infogl.dll") ELSE nullptr
        load == <<Call("LoadLibraryA", "infogl.dll", library)>>
    IN  IF library = nullptr
        THEN [calls |-> load, lpc |-> "exited", ret |-> Returned(-3)]
        ELSE LET funcInitWad == GetProcAddress(dll, "oevInitWad")
                 funcRunRenderingTests == GetProcAddress(dll, "oevRunRenderingTests")
                 made == load
                         \o <<Call("GetProcAddress", "oevInitWad", funcInitWad),
                              Call("GetProcAddress", "oevRunRenderingTests",
                                   funcRunRenderingTests),
                              Through(funcInitWad, "oevInitWad", "GLVIEW.RMX", status)>>
             IN  IF funcInitWad = nullptr /\ crash
                 THEN [calls |-> made, lpc |-> "crashed", ret |-> AccessViolation]
                 ELSE IF status >= 0
                 THEN [calls |-> made, lpc |-> "GetDisplayMode", ret |-> NoReturn]
                 ELSE [calls |-> made, lpc |-> "exited", ret |-> Returned(-1)]

(* Lines 208-219: the walk along the list of results, one log line each.   *)
(* strcmp on a record without a status string is undefined: when the      *)
(* process goes on, the record is logged as failed.                        *)
RECURSIVE LogResults(_)
LogResults(lpResult) ==
    IF lpResult = nullptr THEN <<>>
    ELSE <<Call("Log", lpResult[1].index,
                /\ lpResult[1].result # nullptr
                /\ strcmp(lpResult[1].result[1], "OK") = 0)>>
         \o LogResults(lpResult[1].next)

(* Some record of the list has no status string.                           *)
RECURSIVE HasNullStatus(_)
HasNullStatus(lpResult) ==
    /\ lpResult # nullptr
    /\ \/ lpResult[1].result = nullptr
       \/ HasNullStatus(lpResult[1].next)

(* run_rendering_test from line 193 on: [calls, lpc, ret]. displaymode is  *)
(* what GetDisplayMode returned; of the payload, the displaymode element   *)
(* is followed.                                                            *)
RunRenderingTestBody(dll, displaymode, status, answer, crash) ==
    LET szXml == CreateXMLElement("root",
                     CreateXMLElement("displaymode", to_string(displaymode)))
        library == IF dll.loads THEN PointerTo("infogl.dll") ELSE nullptr
        load == <<Call("LoadLibraryA", "infogl.dll", library)>>
    IN  IF library = nullptr
        THEN [calls |-> load, lpc |-> "exited", ret |-> Returned(-1)]
        ELSE LET funcInitWad == GetProcAddress(dll, "oevInitWad")
                 funcCpuid == GetProcAddress(dll, "oevReadCpuid")
                 funcRunRenderingTests == GetProcAddress(dll, "oevRunRenderingTests")
                 resolved ==
                     load
                     \o <<Call("GetProcAddress", "oevInitWad", funcInitWad),
                          Call("GetProcAddress", "oevReadCpuid", funcCpuid),
                          Call("GetProcAddress", "oevRunRenderingTests",
                               funcRunRenderingTests)>>
                 identified ==
                     resolved \o <<Through(funcCpuid, "oevReadCpuid", "processorInfo", 0)>>
                 initialized ==
                     identified
                     \o <<Through(funcInitWad, "oevInitWad", "GLVIEW.RMX", status)>>
                 asked ==
                     initialized
                     \o <<Through(funcRunRenderingTests, "oevRunRenderingTests", szXml,
                                  answer)>>
             IN  IF funcCpuid = nullptr /\ crash
                 THEN [calls |-> identified, lpc |-> "crashed", ret |-> AccessViolation]
                 ELSE IF funcInitWad = nullptr /\ crash
                 THEN [calls |-> initialized, lpc |-> "crashed", ret |-> AccessViolation]
                 ELSE IF status < 0
                 THEN [calls |-> initialized, lpc |-> "exited", ret |-> Returned(-2)]
                 ELSE IF (funcRunRenderingTests = nullptr \/ HasNullStatus(answer)) /\ crash
                 THEN [calls |-> asked, lpc |-> "crashed", ret |-> AccessViolation]
                 ELSE [calls |-> asked \o LogResults(answer), lpc |-> "exited",
                       ret |-> Returned(0)]

InitLegacy ==
    /\ WGLDIAG_OPTIONS_FS_EX = 2^9
    /\ displayModes \in XmlModeLists
    /\ InitDefaultTester
    /\ InitCaller
    /\ xin = TestConfig
    /\ xout = ""
    /\ lpc = "WinMain"
    /\ gdm_n = 0
    /\ infogl \in LegacyLibraries

(* WinMain, lines 236-257 and the entry of run_rendering_test.             *)
WinMain ==
    /\ lpc = "WinMain"
    /\ \E status \in WadStatuses, crash \in BOOLEAN :
       \E r \in {WinMainBody(infogl, status, crash)} :
               /\ calls' = r.calls
               /\ lpc' = r.lpc
               /\ ret' = r.ret
    /\ gdm_n' = 0
    /\ UNCHANGED <<testerVars, WGLDIAG_OPTIONS_FS_EX, displayModes, batchVars, ser, xmlVars,
                   libVars, infogl, attemptVars>>

(* GetDisplayMode, lines 74-81: one turn of the while loop.                *)
GetDisplayModeWhile ==
    /\ lpc = "GetDisplayMode"
    /\ EnumDisplaySettings(gdm_n)
    /\ IF /\ LegacyWidth = displayModes[gdm_n + 1].dmPelsWidth
          /\ LegacyHeight = displayModes[gdm_n + 1].dmPelsHeight
       THEN lpc' = "library" /\ gdm_n' = gdm_n
       ELSE lpc' = lpc /\ gdm_n' = gdm_n + 1
    /\ UNCHANGED <<testerVars, WGLDIAG_OPTIONS_FS_EX, displayModes, batchVars, calls, ser,
                   ret, xmlVars, libVars, infogl, attemptVars>>

(* A helper whose while loop is followed by return -1.                     *)
GetDisplayModeForever_ReturnsMinusOne ==
    /\ lpc = "GetDisplayMode"
    /\ ~EnumDisplaySettings(gdm_n)
    /\ lpc' = "library"
    /\ gdm_n' = -1
    /\ UNCHANGED <<testerVars, WGLDIAG_OPTIONS_FS_EX, displayModes, batchVars, calls, ser,
                   ret, xmlVars, libVars, infogl, attemptVars>>

(* GetDisplayMode, lines 72-82: the while loop has ended and for (;;)      *)
(* starts it again, n as it was.                                           *)
GetDisplayModeForever ==
    /\ lpc = "GetDisplayMode"
    /\ ~EnumDisplaySettings(gdm_n)
    /\ UNCHANGED vars

(* run_rendering_test, lines 193-226, with the value GetDisplayMode        *)
(* returned.                                                               *)
RunRenderingTest ==
    /\ lpc = "library"
    /\ \E status \in WadStatuses, answer \in LibResponses, crash \in BOOLEAN :
       \E r \in {RunRenderingTestBody(infogl, gdm_n, status, answer, crash)} :
               /\ calls' = calls \o r.calls
               /\ lpc' = r.lpc
               /\ ret' = r.ret
    /\ UNCHANGED <<testerVars, WGLDIAG_OPTIONS_FS_EX, displayModes, batchVars, ser, xmlVars,
                   libVars, gdm_n, infogl, attemptVars>>

NextLegacy ==
    \/ WinMain
    \/ GetDisplayModeWhile
    \/ GetDisplayModeForever
    \/ RunRenderingTest

SpecLegacy == InitLegacy /\ [][NextLegacy]_vars

----------------------------------------------------------------------------
(* Reading a serialization back                                            *)

(* The least p >= from at which sub occurs in s; 0 if there is none.       *)
IndexOf(s, sub, from) ==
    LET at == {p \in from .. (Len(s) - Len(sub) + 1) : SubSeq(s, p, p + Len(sub) - 1) = sub}
    IN  IF at = {} THEN 0 ELSE CHOOSE p \in at : \A q \in at : p <= q

Malformed == [name |-> "#malformed", value |-> ""]

(* The elements <name>value</name>, each followed by a line break, that s  *)
(* is the concatenation of; Malformed closes the list where s is not.      *)
RECURSIVE ParseElements(_)
ParseElements(s) ==
    IF s = "" THEN <<>>
    ELSE IF Head(s) # "<" THEN <<Malformed>>
    ELSE LET gt == IndexOf(s, ">", 2)
         IN  IF gt <= 2 THEN <<Malformed>>
             ELSE LET name == SubSeq(s, 2, gt - 1)
                      close == "</" \o name \o ">"
                      at == IndexOf(s, close, gt + 1)
                      after == at + Len(close)
                  IN  IF at = 0 \/ after > Len(s) \/ SubSeq(s, after, after) # "\n"
                      THEN <<Malformed>>
                      ELSE <<[name |-> name, value |-> SubSeq(s, gt + 1, at - 1)]>>
                           \o ParseElements(SubSeq(s, after + 1, Len(s)))

(* The children of the single root element of a document.                  *)
Children(xml) ==
    LET top == ParseElements(xml)
    IN  IF Len(top) = 1 /\ top[1].name = "root" THEN ParseElements(top[1].value)
        ELSE <<Malformed>>

Names(elements) == [k \in 1 .. Len(elements) |-> elements[k].name]

(* The values of the children called name, in order.                       *)
Values(elements, name) ==
    LET at == {k \in 1 .. Len(elements) : elements[k].name = name}
        RECURSIVE from(_)
        from(k) == IF k > Len(elements) THEN <<>>
                   ELSE (IF k \in at THEN <<elements[k].value>> ELSE <<>>) \o from(k + 1)
    IN  from(1)

IsDigit(c) == \E d \in 0 .. 9 : Digit(d) = c

DigitValue(c) == CHOOSE d \in 0 .. 9 : Digit(d) = c

RECURSIVE ParseNat(_)
ParseNat(s) ==
    IF Len(s) = 1 THEN DigitValue(s)
    ELSE 10 * ParseNat(SubSeq(s, 1, Len(s) - 1)) + DigitValue(SubSeq(s, Len(s), Len(s)))

(* Whether a string of digits denotes a value an int holds.                *)
FitsInt(digits) ==
    \/ Len(digits) < 10
    \/ /\ Len(digits) = 10
       /\ \/ ParseNat(SubSeq(digits, 1, 9)) < 214748364
          \/ /\ ParseNat(SubSeq(digits, 1, 9)) = 214748364
             /\ DigitValue(SubSeq(digits, 10, 10)) <= 7

IsDecimal(s) ==
    LET digits == IF s # "" /\ Head(s) = "-" THEN Tail(s) ELSE s
    IN  /\ digits # ""
        /\ \A k \in 1 .. Len(digits) : IsDigit(SubSeq(digits, k, k))
        /\ FitsInt(digits)

(* The int a decimal string denotes.                                       *)
ParseInt(s) == IF Head(s) = "-" THEN -ParseNat(Tail(s)) ELSE ParseNat(s)

(* The bit positions set in a non-negative int.                            *)
BitsOf(n) == {k \in 0 .. 30 : (n \div 2^k) % 2 = 1}

----------------------------------------------------------------------------
(* The serializer's properties, under SpecXML                              *)

(* Among the elements, exactly one is called name and holds a decimal.     *)
HasOneInt(elements, name) ==
    /\ Len(Values(elements, name)) = 1
    /\ IsDecimal(Values(elements, name)[1])

(* The int in that element.                                                *)
IntOf(elements, name) == ParseInt(Values(elements, name)[1])

(* The bits the flags of a configuration stand for, fullscreen standing    *)
(* for the bits of fs.                                                     *)
FlagBits(config, fs) ==
    (IF config.fullscreen THEN fs ELSE {})
    \cup (IF config.enableDebugOutput THEN BitsOf(WGLDIAG_OPTION_DEBUG) ELSE {})
    \cup (IF config.vsync THEN BitsOf(WGLDIAG_OPTION_VSYNC) ELSE {})
    \cup (IF config.fog THEN BitsOf(WGLDIAG_OPTION_FOG) ELSE {})
    \cup (IF config.transparency THEN BitsOf(WGLDIAG_OPTION_TRANSPARENCY) ELSE {})
    \cup (IF config.userClipPlane THEN BitsOf(WGLDIAG_OPTION_CLIP_PLANE) ELSE {})

(* C6, as claimed: the option element is the OR of exactly the bit         *)
(* constants of the flags that are true, fullscreen contributing FS alone, *)
(* a false flag and every other field contributing nothing.                *)
C6_OptionIsOrOfFlagConstants ==
    xout # "" =>
        \A ch \in {Children(xout)} :
            /\ HasOneInt(ch, "option")
            /\ BitsOf(IntOf(ch, "option")) = FlagBits(xin, BitsOf(WGLDIAG_OPTION_FS))

(* C6, amended: the same, with fullscreen contributing the two constants   *)
(* the code ORs in for it, WGLDIAG_OPTION_FS and WGLDIAG_OPTIONS_FS_EX.    *)
C6_OptionIsOrOfFlagConstantsWithFsEx ==
    xout # "" =>
        \A ch \in {Children(xout)} :
            /\ HasOneInt(ch, "option")
            /\ BitsOf(IntOf(ch, "option"))
                   = FlagBits(xin, BitsOf(WGLDIAG_OPTION_FS)
                                   \cup BitsOf(WGLDIAG_OPTIONS_FS_EX))

(* A fullscreen configuration with fog and without vsync was serialized in *)
(* a build whose FS_EX is bit 19.                                          *)
C6_Witness ==
    /\ xout # ""
    /\ xin.fullscreen /\ xin.fog /\ ~xin.vsync /\ ~xin.transparency
    /\ ~xin.userClipPlane /\ ~xin.enableDebugOutput
    /\ BitsOf(IntOf(Children(xout), "option")) = {5, 11, 19}

ElementOrder ==
    <<"option", "duration", "multisample", "anisotropy", "texturelod", "displaymode",
      "renderer", "pixelformat", "test", "fbenable", "fbformat", "scene", "width", "height">>

(* C7: every serialization is one root element whose children are the 14   *)
(* elements of ElementOrder, each once and in that order, whatever the     *)
(* configuration.                                                          *)
C7_FourteenChildrenInFixedOrder ==
    xout # "" =>
        \A top \in {ParseElements(xout)} :
            /\ Len(top) = 1
            /\ top[1].name = "root"
            /\ Names(ParseElements(top[1].value)) = ElementOrder

(* A configuration far from the defaults was serialized, to 14 children.   *)
C7_Witness ==
    /\ xout # ""
    /\ xin.width = 640 /\ xin.height = 768 /\ xin.testDurationSeconds = 120
    /\ Len(Children(xout)) = 14

(* C8: renderer and scene carry the ordinal of the enum value, width,      *)
(* height and duration the configuration's integers; and the               *)
(* CreateDefaultConfig values give renderer 12, scene 0, width 1920,       *)
(* height 1080, duration 5 and test 4.6.                                   *)
C8_OrdinalsAndIntegersAsGiven ==
    xout # "" =>
        \A ch \in {Children(xout)} :
            /\ \A name \in {"renderer", "scene", "width", "height", "duration"} :
                   HasOneInt(ch, name)
            /\ IntOf(ch, "renderer") = xin.renderer
            /\ IntOf(ch, "scene") = xin.scene
            /\ IntOf(ch, "width") = xin.width
            /\ IntOf(ch, "height") = xin.height
            /\ IntOf(ch, "duration") = xin.testDurationSeconds
            /\ (/\ xin.renderer = OpenGL_4_6 /\ xin.scene = SingleCube
                /\ xin.width = 1920 /\ xin.height = 1080 /\ xin.testDurationSeconds = 5)
               => /\ Values(ch, "renderer") = <<"12">>
                  /\ Values(ch, "scene") = <<"0">>
                  /\ Values(ch, "width") = <<"1920">>
                  /\ Values(ch, "height") = <<"1080">>
                  /\ Values(ch, "duration") = <<"5">>
                  /\ Values(ch, "test") = <<"4.6">>

(* What CreateDefaultConfig returns was serialized.                        *)
C8_Witness ==
    /\ xout # ""
    /\ xin = CreateDefaultConfig
    /\ xin.renderer = 12 /\ xin.testDurationSeconds = 5

----------------------------------------------------------------------------
(* Initialize and RunSingleTest, under Spec                                *)

LoadFailureMessage == "Failed to load infogl.dll or required functions"

(* The positions in calls of the calls of fn.                              *)
CallsOf(fn) == {k \in 1 .. Len(calls) : calls[k].fn = fn}

(* The library's answer carries the status string "OK".                    *)
IsOK(testResults) ==
    /\ testResults # nullptr
    /\ testResults[1].result # nullptr
    /\ testResults[1].result[1] = "OK"

(* The library's answer carries a status string.                           *)
HasStatus(testResults) == testResults # nullptr /\ testResults[1].result # nullptr

(* C2: whenever oevRunRenderingTests returned a null record, a record      *)
(* without a status string or one whose status string is not "OK", the     *)
(* result RunSingleTest returns has passed = false, and where a status     *)
(* string was supplied its errorMessage is that string, character for      *)
(* character.                                                              *)
C2_NotOkFailsWithSuppliedMessage ==
    ret.op = "RunSingleTest" =>
        \A k \in CallsOf("oevRunRenderingTests") :
            ~IsOK(calls[k].res) =>
                /\ ret.value.passed = FALSE
                /\ HasStatus(calls[k].res) =>
                       ret.value.errorMessage = calls[k].res[1].result[1]

C2_Witness ==
    /\ ret.op = "RunSingleTest"
    /\ \E k \in CallsOf("oevRunRenderingTests") :
           /\ HasStatus(calls[k].res)
           /\ calls[k].res[1].result[1] = "OK "
    /\ ret.value.errorMessage = "OK "

(* C3: whenever oevRunRenderingTests returned a record whose status string *)
(* is exactly "OK", the result RunSingleTest returns has passed = true,    *)
(* the record's fps as averageFPS, the record's index as testIndex and an  *)
(* empty errorMessage.                                                     *)
C3_OkPassesWithFpsAndIndex ==
    ret.op = "RunSingleTest" =>
        \A k \in CallsOf("oevRunRenderingTests") :
            IsOK(calls[k].res) =>
                /\ ret.value.passed = TRUE
                /\ ret.value.averageFPS = calls[k].res[1].fps
                /\ ret.value.testIndex = calls[k].res[1].index
                /\ ret.value.errorMessage = ""

C3_Witness ==
    /\ ret.op = "RunSingleTest"
    /\ \E k \in CallsOf("oevRunRenderingTests") :
           /\ IsOK(calls[k].res)
           /\ calls[k].res[1].fps = 60
           /\ calls[k].res[1].index = 1
    /\ ret.value.passed

LoadOrResolveFailed ==
    \E k \in CallsOf("LoadLibraryA") \cup CallsOf("GetProcAddress") : calls[k].res = nullptr

(* C10: if the library is not loaded or one of oevInitWad, oevReadCpuid,   *)
(* oevRunRenderingTests is not resolved, Initialize returns false,         *)
(* m_initialized stays false, the last error is the load-failure message   *)
(* and oevInitWad is not called.                                           *)
C10_LoadFailureFailsInitialize ==
    LoadOrResolveFailed =>
        /\ ret.op = "Initialize" => ret.value = FALSE
        /\ ~m_initialized
        /\ m_lastError = LoadFailureMessage
        /\ CallsOf("oevInitWad") = {}

C10_Witness ==
    /\ ret.op = "Initialize"
    /\ \E k \in CallsOf("LoadLibraryA") : calls[k].res # nullptr
    /\ \E k \in CallsOf("GetProcAddress") :
           calls[k].arg = "oevReadCpuid" /\ calls[k].res = nullptr
    /\ \A k \in CallsOf("GetProcAddress") :
           calls[k].arg # "oevReadCpuid" => calls[k].res # nullptr

----------------------------------------------------------------------------
(* RunMultipleTests, under SpecBatch                                       *)

IsTestRun(c) == c.fn = "RunSingleTest"

IsCallback(c) == c.fn = "progressCallback"

(* The RunSingleTest calls of the batch and its callback invocations, in   *)
(* the order they were made.                                               *)
TestRuns == SelectSeq(calls, IsTestRun)

Callbacks == SelectSeq(calls, IsCallback)

(* C1: RunMultipleTests returns as many results as it was given configs,   *)
(* the k-th the outcome of RunSingleTest on the k-th config; a supplied    *)
(* callback has been invoked once per config with completed-counts 1, 2,   *)
(* ..., N in this order, and not at all for an empty list.                 *)
C1_NResultsInOrderNCallbacks ==
    ret.op = "RunMultipleTests" =>
        /\ Len(ret.value) = Len(configs)
        /\ Len(TestRuns) = Len(configs)
        /\ \A k \in 1 .. Len(configs) :
               /\ TestRuns[k].arg = configs[k]
               /\ TestRuns[k].res = ret.value[k]
        /\ Len(Callbacks) = IF progressCallback THEN Len(configs) ELSE 0
        /\ \A k \in 1 .. Len(Callbacks) : Callbacks[k].arg[1] = k

C1_Witness ==
    /\ ret.op = "RunMultipleTests"
    /\ progressCallback
    /\ Len(configs) = 2
    /\ configs[1] # configs[2]
    /\ ret.value[1] # ret.value[2]
    /\ Len(Callbacks) = 2

(* C4: a test that failed, by a null answer, a status other than "OK" or   *)
(* a failed initialization, does not end the batch: the loop is not left   *)
(* while a config remains, and in the returned batch every config after    *)
(* the failed one has been run, has its own result and, with a callback    *)
(* supplied, its own callback invocation.                                  *)
C4_FailedTestDoesNotAbortBatch ==
    /\ pc = "loop" /\ i < Len(configs) => ENABLED BatchTest /\ ~ENABLED BatchReturn
    /\ ret.op = "RunMultipleTests" =>
           \A j \in 1 .. Len(ret.value) :
               ~ret.value[j].passed =>
                   \A k \in j + 1 .. Len(configs) :
                       /\ k <= Len(ret.value)
                       /\ k <= Len(TestRuns)
                       /\ TestRuns[k].arg = configs[k]
                       /\ TestRuns[k].res = ret.value[k]
                       /\ progressCallback =>
                              \E c \in 1 .. Len(Callbacks) :
                                  /\ Callbacks[c].arg[1] = k
                                  /\ Callbacks[c].res = ret.value[k]

C4_Witness ==
    /\ ret.op = "RunMultipleTests"
    /\ progressCallback
    /\ Len(configs) = 2
    /\ Len(ret.value) = 2
    /\ ~ret.value[1].passed
    /\ ret.value[1].errorMessage = LoadFailureMessage
    /\ ret.value[2].passed

(* C5: the k-th callback invocation comes directly after the return of     *)
(* the k-th RunSingleTest, with that result already appended and no call   *)
(* of the next test made, and is given (k, N, r): N the number of          *)
(* configs, r the k-th element of the results, which is the k-th element   *)
(* of the list returned.                                                   *)
C5_CallbackBetweenTestsWithItsResult ==
    /\ pc = "callback" => Len(results) = i + 1 /\ results[i + 1] = result
    /\ \A p \in CallsOf("progressCallback") :
           \E k \in {Cardinality({q \in CallsOf("progressCallback") : q <= p})} :
               /\ p > 1
               /\ calls[p - 1].fn = "RunSingleTest"
               /\ Cardinality({q \in CallsOf("RunSingleTest") : q < p}) = k
               /\ calls[p].arg = <<k, Len(configs)>>
               /\ k <= Len(results)
               /\ calls[p].res = results[k]
               /\ calls[p].res = calls[p - 1].res
    /\ ret.op = "RunMultipleTests" =>
           \A k \in 1 .. Len(Callbacks) : Callbacks[k].res = ret.value[k]

C5_Witness ==
    /\ pc = "next"
    /\ i = 1
    /\ Len(configs) = 2
    /\ Len(Callbacks) = 2
    /\ Callbacks[2].arg = <<2, 2>>
    /\ Callbacks[1].res # Callbacks[2].res

----------------------------------------------------------------------------
(* Initialization, under Spec                                              *)

(* C11: when the library loads and the three entry points resolve,         *)
(* oevInitWad is called with the resource path; on a negative status       *)
(* Initialize returns false, m_initialized stays false and the last error  *)
(* names that path; on a status of zero or more Initialize returns true    *)
(* and m_initialized is set.                                               *)
C11_WadStatusDecidesInitialize ==
    ret.op = "Initialize" /\ calls # <<>> /\ ~LoadOrResolveFailed =>
        /\ CallsOf("oevInitWad") # {}
        /\ \A k \in CallsOf("oevInitWad") :
               /\ calls[k].arg = m_resourcePath
               /\ calls[k].res < 0 =>
                      /\ ret.value = FALSE
                      /\ ~m_initialized
                      /\ m_lastError = "Failed to initialize resource package: "
                                           \o m_resourcePath
               /\ calls[k].res >= 0 =>
                      /\ ret.value = TRUE
                      /\ m_initialized

C11_Witness ==
    /\ ret.op = "Initialize"
    /\ \E k \in CallsOf("oevInitWad") : calls[k].res = -1
    /\ m_resourcePath = "assets\\GLVIEW.RMX"
    /\ ~m_initialized

----------------------------------------------------------------------------
(* The library handle, under Spec                                          *)

(* C12, as stated: the wrapper never holds more than one handle it has     *)
(* not released, and once it is torn down it has called FreeLibrary as     *)
(* often as LoadLibraryA returned a handle.                                *)
C12_EveryLoadedHandleReleased ==
    /\ libraryLoads - libraryFrees <= 1
    /\ pc = "destroyed" => libraryLoads = libraryFrees

(* The library handle and the three entry points are bound.                *)
AllBound(impl) ==
    /\ impl.hLibrary # nullptr
    /\ impl.funcInitWad # nullptr
    /\ impl.funcReadCpuid # nullptr
    /\ impl.funcRunRenderingTests # nullptr

(* C13: oevInitWad, oevReadCpuid and oevRunRenderingTests are called only  *)
(* with the handle and all three entry points bound, and m_initialized     *)
(* implies that they are bound.                                            *)
C13_EntryPointsCalledOnlyWhenAllBound ==
    /\ m_initialized => AllBound(m_pImpl)
    /\ \A k \in 1 .. Len(calls) : calls[k].fn \in EntryPoints => AllBound(m_pImpl)

C13_Witness ==
    /\ ret.op = "GetCPUInfo"
    /\ CallsOf("oevReadCpuid") # {}
    /\ m_initialized
    /\ m_lastError # ""

----------------------------------------------------------------------------
(* RunMultipleTests and the library, under SpecBatch                       *)

(* The calls of oevRunRenderingTests made for the RunSingleTest that       *)
(* returned at position t of calls.                                        *)
RunCallsOfTest(t) ==
    {q \in CallsOf("oevRunRenderingTests") :
         /\ q < t
         /\ \A u \in CallsOf("RunSingleTest") : u < t => u < q}

(* C14: a RunSingleTest calls oevRunRenderingTests at most once, passed    *)
(* or failed; a batch over N configs calls it at most N times, and N       *)
(* times when the tester was initialized when the batch began.             *)
C14_NoRetries ==
    /\ \A t \in CallsOf("RunSingleTest") : Cardinality(RunCallsOfTest(t)) <= 1
    /\ ret.op = "RunMultipleTests" =>
           /\ Cardinality(CallsOf("oevRunRenderingTests")) <= Len(configs)
           /\ m_initialized /\ CallsOf("LoadLibraryA") = {} =>
                  Cardinality(CallsOf("oevRunRenderingTests")) = Len(configs)

C14_Witness ==
    /\ ret.op = "RunMultipleTests"
    /\ Len(configs) = 2
    /\ m_initialized
    /\ CallsOf("LoadLibraryA") = {}
    /\ ~ret.value[1].passed
    /\ ~ret.value[2].passed
    /\ Cardinality(CallsOf("oevRunRenderingTests")) = 2

----------------------------------------------------------------------------
(* The serializer and its inputs, under SpecXML                            *)

(* s is the decimal notation of an int: digits after an optional minus     *)
(* sign, no leading zero, no minus zero.                                   *)
IsCanonicalDecimal(s) ==
    /\ IsDecimal(s)
    /\ s # "-0"
    /\ \A digits \in {IF Head(s) = "-" THEN Tail(s) ELSE s} :
           Len(digits) > 1 => Head(digits) # "0"

(* The element called name holds the decimal notation of v.                *)
Carries(elements, name, v) ==
    /\ HasOneInt(elements, name)
    /\ IsCanonicalDecimal(Values(elements, name)[1])
    /\ IntOf(elements, name) = v

(* C15: whatever ints width, height, testDurationSeconds,                  *)
(* multisampleCount, maxAnisotropy, textureLOD and pixelFormat hold, and   *)
(* whatever renderer and scene hold, inside their enums or outside, the    *)
(* serialization is produced and each one's element carries exactly that   *)
(* value in decimal.                                                       *)
C15_NoValidation ==
    xout # "" =>
        \A ch \in {Children(xout)} :
            /\ Len(ch) = 14
            /\ Carries(ch, "width", xin.width)
            /\ Carries(ch, "height", xin.height)
            /\ Carries(ch, "duration", xin.testDurationSeconds)
            /\ Carries(ch, "multisample", xin.multisampleCount)
            /\ Carries(ch, "anisotropy", xin.maxAnisotropy)
            /\ Carries(ch, "texturelod", xin.textureLOD)
            /\ Carries(ch, "pixelformat", xin.pixelFormat)
            /\ Carries(ch, "renderer", xin.renderer)
            /\ Carries(ch, "scene", xin.scene)

C15_Witness ==
    /\ xout # ""
    /\ xin.renderer = 16
    /\ xin.scene = 16
    /\ xin.width = -4096
    /\ xin.pixelFormat = -4096
    /\ Values(Children(xout), "texturelod") = <<"-4096">>

(* C16: every element holds a decimal int except test, fbenable and        *)
(* fbformat; fbformat is "Linear", "sRGB" or "HDR" for RGB_Linear, sRGB    *)
(* and HDR, fbenable is "Default", "PixelBuffer" or "FrameBufferObject"    *)
(* for Default, PixelBuffer and FramebufferObject, and a value outside     *)
(* the enum gives "Linear" and "Default".                                  *)
C16_IntegersExceptTestAndFramebufferStrings ==
    xout # "" =>
        \A ch \in {Children(xout)} :
            /\ \A k \in 1 .. Len(ch) :
                   ch[k].name \notin {"test", "fbenable", "fbformat"}
                       => IsCanonicalDecimal(ch[k].value)
            /\ Values(ch, "fbformat") =
                   <<IF xin.fbFormat = sRGB THEN "sRGB"
                     ELSE IF xin.fbFormat = HDR THEN "HDR"
                     ELSE "Linear">>
            /\ Values(ch, "fbenable") =
                   <<IF xin.fbType = PixelBuffer THEN "PixelBuffer"
                     ELSE IF xin.fbType = FramebufferObject THEN "FrameBufferObject"
                     ELSE "Default">>
            /\ \A k \in 1 .. Len(ch) :
                   ch[k].name \in {"test", "fbenable", "fbformat"}
                       => ~IsDecimal(ch[k].value)

C16_Witness ==
    /\ xout # ""
    /\ xin.fbType = FramebufferObject
    /\ xin.fbFormat = 3
    /\ Values(Children(xout), "fbenable") = <<"FrameBufferObject">>
    /\ Values(Children(xout), "fbformat") = <<"Linear">>

(* The indices, from 0, of the enumerated modes of that width and height.  *)
MatchingModes(width, height) ==
    {k \in 0 .. Len(displayModes) - 1 :
         /\ displayModes[k + 1].dmPelsWidth = width
         /\ displayModes[k + 1].dmPelsHeight = height}

(* C17: over a finite enumeration FindDisplayMode ends with the lowest     *)
(* index of a mode whose width and height both equal its arguments, or     *)
(* with -1 when there is none, and the displaymode element carries that    *)
(* value.                                                                  *)
C17_LowestMatchingModeOrMinusOne ==
    xout # "" =>
        \A ch \in {Children(xout)}, found \in {FindDisplayMode(xin.width, xin.height)} :
            /\ found \in MatchingModes(xin.width, xin.height) \cup {-1}
            /\ found = -1 <=> MatchingModes(xin.width, xin.height) = {}
            /\ \A k \in MatchingModes(xin.width, xin.height) : found <= k
            /\ Carries(ch, "displaymode", found)

C17_Witness ==
    /\ xout # ""
    /\ Len(displayModes) = 5
    /\ MatchingModes(xin.width, xin.height) = {2, 4}
    /\ Values(Children(xout), "displaymode") = <<"2">>

(* C18, as stated: the configuration CreateQualityConfig returns has fog,  *)
(* transparency and userClipPlane set and multisampling and anisotropic   *)
(* filtering not zero.                                                     *)
C18_QualityConfigEnablesAllFeatures ==
    xin = CreateQualityConfig =>
        /\ xin.fog
        /\ xin.transparency
        /\ xin.userClipPlane
        /\ xin.multisampleCount # 0
        /\ xin.maxAnisotropy # 0

(* The version string the renderer's ordinal stands for.                   *)
TestVersionOf(ordinal) ==
    IF ordinal \in {0, 1} THEN "2.0"
    ELSE IF ordinal \in 2 .. 5 THEN "3." \o Digit(ordinal - 2)
    ELSE IF ordinal \in 6 .. 12 THEN "4." \o Digit(ordinal - 6)
    ELSE IF ordinal \in 13 .. 15 THEN "1.0"
    ELSE "4.6"

(* C19: the test element depends on the renderer only: "2.0" for GDI and   *)
(* OpenGL_2_0, "M.m" for OpenGL_M_m from 3.0 to 4.6, "1.0" for Vulkan      *)
(* 1.0, 1.1 and 1.2, and "4.6" for a value outside the enum.               *)
C19_TestVersionFromRendererAlone ==
    xout # "" =>
        \A ch \in {Children(xout)} :
            /\ Values(ch, "test") = <<TestVersionOf(xin.renderer)>>
            /\ IntOf(ch, "renderer") = xin.renderer

C19_Witness ==
    /\ xout # ""
    /\ xin.renderer = Vulkan_1_2
    /\ Values(Children(xout), "test") = <<"1.0">>

----------------------------------------------------------------------------
(* RunSingleTest before initialization, under Spec                         *)

(* C20: a RunSingleTest on a tester that is not initialized attempts       *)
(* Initialize first; when the attempt fails, by a failed load or           *)
(* resolution or a rejected resource package, the result has passed =      *)
(* false, testIndex = 0, averageFPS = 0 and the last error as              *)
(* errorMessage, nothing was serialized and oevRunRenderingTests was not   *)
(* called.                                                                 *)
C20_FailedInitializationFailsTest ==
    ret.op = "RunSingleTest" =>
        /\ CallsOf("oevRunRenderingTests") # {} =>
               \A k \in CallsOf("LoadLibraryA") :
                   \A q \in CallsOf("oevRunRenderingTests") : k < q
        /\ ~m_initialized =>
               /\ calls # <<>>
               /\ calls[1].fn = "LoadLibraryA"
               /\ ret.value.passed = FALSE
               /\ ret.value.testIndex = 0
               /\ ret.value.averageFPS = 0
               /\ m_lastError # ""
               /\ ret.value.errorMessage = m_lastError
               /\ CallsOf("oevRunRenderingTests") = {}
               /\ ser = <<>>

C20_Witness ==
    /\ ret.op = "RunSingleTest"
    /\ ~m_initialized
    /\ \E k \in CallsOf("oevInitWad") : calls[k].res = -1
    /\ ret.value.errorMessage = "Failed to initialize resource package: GLVIEW.RMX"

----------------------------------------------------------------------------
(* The legacy program, under SpecLegacy                                    *)

(* The indices of the enumerated modes of the resolution WinMain asks for. *)
LegacyMatches == MatchingModes(LegacyWidth, LegacyHeight)

(* C21: GetDisplayMode's while loop sits in for (;;): with no enumerated   *)
(* mode of the width and height asked for it never returns, -1 or          *)
(* anything else, and run_rendering_test makes none of its library calls;  *)
(* with such a mode it returns the index of the first one.                 *)
C21_LegacyGetDisplayModeLoopsForever ==
    /\ LegacyMatches = {} =>
           /\ lpc # "library"
           /\ Cardinality(CallsOf("LoadLibraryA")) <= 1
           /\ CallsOf("oevRunRenderingTests") = {}
           /\ CallsOf("oevReadCpuid") = {}
           /\ ret.op = "WinMain" => ret.value \in {-3, -1}
    /\ lpc = "GetDisplayMode" /\ ~EnumDisplaySettings(gdm_n) =>
           /\ LegacyMatches = {}
           /\ ENABLED GetDisplayModeForever
           /\ ~ENABLED GetDisplayModeWhile
           /\ ~ENABLED RunRenderingTest
    /\ lpc = "library" =>
           /\ gdm_n \in LegacyMatches
           /\ \A k \in LegacyMatches : gdm_n <= k

C21_Witness ==
    /\ lpc = "GetDisplayMode"
    /\ displayModes # <<>>
    /\ gdm_n = Len(displayModes)
    /\ LegacyMatches = {}
    /\ \E k \in CallsOf("oevInitWad") : calls[k].res >= 0

(* C22, as stated: the legacy program calls no entry point it has not     *)
(* resolved, and when infogl.dll is missing, lacks an entry point or       *)
(* oevInitWad rejects the resource package, it ends with a negative        *)
(* return code without having called oevRunRenderingTests.                 *)
C22_LegacyInitFailureEndsNegative ==
    /\ CallsOf("nullptr") = {}
    /\ (/\ lpc \in {"exited", "crashed"}
        /\ \/ ~infogl.loads
           \/ infogl.exports # EntryPoints
           \/ \E k \in CallsOf("oevInitWad") : calls[k].res < 0)
       => /\ ret.op = "WinMain"
          /\ ret.value < 0
          /\ CallsOf("oevRunRenderingTests") = {}

(* C23: once the tester is initialized it stays initialized, and an        *)
(* Initialize call on it returns true having called nothing (no            *)
(* LoadLibraryA, no GetProcAddress, no oevInitWad) and having left the     *)
(* last error, the library handle and the entry points as they were.       *)
C23_InitializeIdempotentOnceSucceeded ==
    [][m_initialized
       => /\ m_initialized'
          /\ CallInitialize
             => /\ ret'.op = "Initialize"
                /\ ret'.value = TRUE
                /\ calls' = <<>>
                /\ m_lastError' = m_lastError
                /\ m_pImpl' = m_pImpl
                /\ libraryLoads' = libraryLoads]_vars

(* Initialize has returned true on a tester that was initialized, whose    *)
(* last error an earlier failed attempt had set.                           *)
C23_Witness ==
    /\ m_initialized
    /\ ret.op = "Initialize"
    /\ ret.value = TRUE
    /\ calls = <<>>
    /\ m_lastError # ""
    /\ libraryLoads >= 1

(* C24: every oevRunRenderingTests call comes after an oevInitWad call on  *)
(* the same tester that returned a non-negative status, either during an   *)
(* earlier operation or earlier in the same one; so a tester all of whose  *)
(* initialization attempts failed never reaches oevRunRenderingTests.      *)
C24_RunTestsOnlyAfterAcceptedWad ==
    [][\A q \in 1 .. Len(calls') :
           calls'[q].fn = "oevRunRenderingTests"
           => \/ wadAccepted
              \/ \E k \in 1 .. (q - 1) :
                     /\ calls'[k].fn = "oevInitWad"
                     /\ calls'[k].res >= 0]_vars

(* A test has run on a tester that an earlier operation initialized, after *)
(* an attempt that had failed.                                             *)
C24_Witness ==
    /\ ret.op = "RunSingleTest"
    /\ CallsOf("oevRunRenderingTests") # {}
    /\ CallsOf("oevInitWad") = {}
    /\ initFailed
    /\ wadAccepted

(* Two answers of the library with the same head record (index, fps and    *)
(* result), whatever follows it.                                           *)
SameHead(answer, other) ==
    /\ answer # nullptr
    /\ other # nullptr
    /\ [answer[1] EXCEPT !.next = nullptr] = [other[1] EXCEPT !.next = nullptr]

(* C25: the TestResult RunSingleTest returns depends on the head record of *)
(* the library's list alone: every answer with the same head and other     *)
(* successors translates to the result returned, and a head whose result   *)
(* is "OK" gives passed = true whatever the records after it say.          *)
C25_OnlyHeadRecordInterpreted ==
    ret.op = "RunSingleTest"
    => \A q \in CallsOf("oevRunRenderingTests") :
           /\ \A other \in LibResponses :
                  SameHead(calls[q].res, other) => ProcessResults(other) = ret.value
           /\ (/\ calls[q].res # nullptr
               /\ calls[q].res[1].result = PointerTo("OK"))
              => /\ ret.value.passed
                 /\ ret.value.testIndex = calls[q].res[1].index
                 /\ ret.value.averageFPS = calls[q].res[1].fps

(* The library answered "OK" followed by a record that failed, and the     *)
(* test passed.                                                            *)
C25_Witness ==
    /\ ret.op = "RunSingleTest"
    /\ ret.value.passed
    /\ \E q \in CallsOf("oevRunRenderingTests") :
           /\ calls[q].res # nullptr
           /\ calls[q].res[1].next # nullptr
           /\ calls[q].res[1].next[1].result = PointerTo("FAILED")

(* C26: the last error is non-empty exactly when an initialization attempt *)
(* of the tester has failed, and it is then one of Initialize's two        *)
(* messages: a failed test on an initialized tester does not set it, and a *)
(* later successful Initialize or test does not clear it.                  *)
C26_LastErrorIffInitializationFailed ==
    /\ m_lastError # "" <=> initFailed
    /\ m_lastError \in {"", LoadFailureMessage,
                        "Failed to initialize resource package: " \o m_resourcePath}

(* An attempt failed, a later one succeeded, and then a test failed in the *)
(* library: the last error is still the attempt's.                         *)
C26_Witness ==
    /\ initFailed
    /\ m_initialized
    /\ ret.op = "RunSingleTest"
    /\ ret.value.errorMessage = "FAILED"
    /\ CallsOf("LoadLibraryA") = {}
    /\ m_lastError = LoadFailureMessage

(* The ovRenderer code that names the API version of a RendererType.       *)
SdkRendererOf(renderer) ==
    CASE renderer = GDI -> RENDERER_GDI
      [] renderer = OpenGL_2_0 -> RENDERER_GL2_0
      [] renderer = OpenGL_3_0 -> RENDERER_GL3_0
      [] renderer = OpenGL_3_1 -> RENDERER_GL3_1
      [] renderer = OpenGL_3_2 -> RENDERER_GL3_2
      [] renderer = OpenGL_3_3 -> RENDERER_GL3_3
      [] renderer = OpenGL_4_0 -> RENDERER_GL4_0
      [] renderer = OpenGL_4_1 -> RENDERER_GL4_1
      [] renderer = OpenGL_4_2 -> RENDERER_GL4_2
      [] renderer = OpenGL_4_3 -> RENDERER_GL4_3
      [] renderer = OpenGL_4_4 -> RENDERER_GL4_4
      [] renderer = OpenGL_4_5 -> RENDERER_GL4_5
      [] renderer = OpenGL_4_6 -> RENDERER_GL4_6
      [] OTHER -> RENDERER_VK1

(* C27, as stated: for every value of RendererType the integer in the      *)
(* renderer element is a code of ovRenderer, at least RENDERER_GDI and     *)
(* below MAX_RENDERER, and the code that names the same API version.       *)
C27_RendererCodeIsValidOvRenderer ==
    (xout # "" /\ xin.renderer \in GDI .. Vulkan_1_2)
    => \A ch \in {Children(xout)} :
           /\ HasOneInt(ch, "renderer")
           /\ IntOf(ch, "renderer") >= RENDERER_GDI
           /\ IntOf(ch, "renderer") < MAX_RENDERER
           /\ IntOf(ch, "renderer") = SdkRendererOf(xin.renderer)

============================================================================
